---- MODULE Spec2Model ----
(***************************************************************************)
(* Model of import_script.py: the bulk import of user accounts from a CSV  *)
(* file, run as one function, transaction(), under @transaction.atomic.    *)
(*                                                                         *)
(* Strings are sequences of one-character strings, so that split, replace, *)
(* index and slicing are computed as Python computes them.  The database   *)
(* is the tables the script reads and writes; `db` is what the script's    *)
(* connection sees inside the atomic block, `persisted` is what is durable *)
(* (what remains once the block has committed or rolled back) and `before` *)
(* is the durable state when the script started.  `posts` are the requests *)
(* sent to /users/reset_password/ through the test client: they are issued *)
(* to an endpoint outside the script and are not database rows of it.      *)
(***************************************************************************)
EXTENDS Integers, Sequences, FiniteSets, TLC

VARIABLES
    file,         \* the CSV file at PATH: [exists, rows], rows a sequence of rows of cells
    ARTICLES,     \* the ARTICLES parameter: a sequence of <<article id, quantity>>
    schools,      \* the pks of the School table
    paiements,    \* the pks of the Paiement table
    articles,     \* the pks of the Article table
    db,           \* [adherents, factures, ventes] as seen inside the atomic block
    persisted,    \* the durable [adherents, factures, ventes]
    before,       \* the durable tables when the run started
    posts,        \* the reset_password requests issued, in order
    users,        \* read_file's list of CSVUser
    pc,           \* the statement transaction() is at
    i,            \* the row of the loop transaction() is in
    invoice,      \* the pk of the row's Facture (0: none)
    user_object,  \* the pk of the row's User (0: none)
    purchases,    \* the row's Vente objects, not saved yet
    error,        \* the exception that ended the run ("none": none)
    log           \* the operations performed, in order

vars == <<file, ARTICLES, schools, paiements, articles, db, persisted, before,
          posts, users, pc, i, invoice, user_object, purchases, error, log>>

----------------------------------------------------------------------------
(* Bounds of the model *)

MaxRows == 2        \* rows of the CSV file under Spec
MaxEmailLen == 2    \* characters of the email under SpecRow
MaxRoomLen == 5     \* characters of the room string under SpecRow

----------------------------------------------------------------------------
(* Parameters of the script *)

SCHOOL_ID == 1
PAYMENT_METHOD == 1
COMMENT == "Example"
STATE_ACTIVE == "STATE_ACTIVE"
EMAIL_STATE_VERIFIED == "EMAIL_STATE_VERIFIED"

NoRoom == 0         \* room = None

----------------------------------------------------------------------------
(* Python's string operations *)

\* s.index(c) - 1-based; 0 where Python raises ValueError
str_index(s, c) ==
    IF \E k \in 1..Len(s) : s[k] = c
    THEN CHOOSE k \in 1..Len(s) : s[k] = c /\ \A m \in 1..(k - 1) : s[m] # c
    ELSE 0

\* s.split(c)[0]
str_split0(s, c) ==
    IF str_index(s, c) = 0 THEN s ELSE SubSeq(s, 1, str_index(s, c) - 1)

\* s.replace(c, d), c and d one character each
str_replace(s, c, d) == [k \in 1..Len(s) |-> IF s[k] = c THEN d ELSE s[k]]

----------------------------------------------------------------------------
(* The topology the script reads: buildings and rooms *)

Building == { [id |-> 1, name |-> <<"A">>],
              [id |-> 2, name |-> <<"A", "A">>] }

Room == { [id |-> 1, building |-> 1, name |-> <<"1">>],
          [id |-> 2, building |-> 1, name |-> <<"1", " ", "1">>],
          [id |-> 3, building |-> 2, name |-> <<"1">>] }

\* The catalogue: Article rows by pk
Article(pk) ==
    IF pk = 1
    THEN [name |-> "membership", prix |-> 10, duration_connection |-> 0,
          duration_days_connection |-> 0, duration_membership |-> 12,
          duration_days_membership |-> 0]
    ELSE [name |-> "connection", prix |-> 5, duration_connection |-> 1,
          duration_days_connection |-> 15, duration_membership |-> 0,
          duration_days_membership |-> 0]

----------------------------------------------------------------------------
(* class CSVUser *)

\* get_username cutting at the last "@" instead of the first
get_username_mut_last_at(email) ==
    LET ats == {k \in 1..Len(email) : email[k] = "@"}
        cut == IF ats = {} THEN Len(email) + 1
               ELSE CHOOSE k \in ats : \A m \in ats : m <= k
    IN  str_replace(SubSeq(email, 1, cut - 1), ".", "-")

get_username(email) ==
    LET local_part == str_split0(email, "@")
    IN  str_replace(local_part, ".", "-")

\* The building and room names get_room cuts the room string into
room_building_name(room) == SubSeq(room, 1, str_index(room, " ") - 1)

\* the room name taken after the last space instead of the first
room_name_mut_last_space(room) ==
    LET sp == {k \in 1..Len(room) : room[k] = " "}
        cut == CHOOSE k \in sp : \A m \in sp : m <= k
    IN  SubSeq(room, cut + 1, Len(room))

room_name(room) == SubSeq(room, str_index(room, " ") + 1, Len(room))

\* get_room taking a room string without a space for "no room"
get_room_mut_no_space_no_room(room) ==
    IF str_index(room, " ") = 0
    THEN [raises |-> "none", room |-> NoRoom]
    ELSE LET bs == {b \in Building : b.name = room_building_name(room)}
             rs == {r \in Room : r.name = room_name(room)
                                 /\ \E b \in bs : b.id = r.building}
         IN  IF bs = {}
             THEN [raises |-> "Building.DoesNotExist", room |-> NoRoom]
             ELSE IF rs = {}
             THEN [raises |-> "Room.DoesNotExist", room |-> NoRoom]
             ELSE [raises |-> "none", room |-> (CHOOSE r \in rs : TRUE).id]

\* get_room: [raises |-> the exception or "none", room |-> the Room's id]
get_room(room) ==
    IF str_index(room, " ") = 0
    THEN [raises |-> "ValueError", room |-> NoRoom]
    ELSE LET bs == {b \in Building : b.name = room_building_name(room)}
         IN  IF bs = {}
             THEN [raises |-> "Building.DoesNotExist", room |-> NoRoom]
             ELSE LET building == CHOOSE b \in bs : TRUE
                      rs == {r \in Room : r.building = building.id
                                          /\ r.name = room_name(room)}
                  IN  IF rs = {}
                      THEN [raises |-> "Room.DoesNotExist", room |-> NoRoom]
                      ELSE [raises |-> "none", room |-> (CHOOSE r \in rs : TRUE).id]

\* CSVUser(row[0], row[1], row[2], row[3])
CSVUser(last_name, first_name, email, room) ==
    [first_name |-> first_name, last_name |-> last_name, email |-> email,
     username |-> get_username(email), room |-> get_room(room).room]

----------------------------------------------------------------------------
(* The tables and the ORM calls *)

Adherents == db.adherents    \* Adherent.objects, the pk of a row is its index
Factures == db.factures      \* Facture.objects
Ventes == db.ventes          \* Vente.objects

\* Adherent.objects.filter(pseudo__in=usernames), as pks
filter_pseudo_in(usernames) ==
    {k \in 1..Len(Adherents) : \E u \in 1..Len(usernames) : Adherents[k].pseudo = usernames[u]}

\* Adherent.objects.filter(room=room), as pks
filter_room(room) == {k \in 1..Len(Adherents) : Adherents[k].room = room}

\* User.objects.filter(pseudo=pseudo), as pks
filter_pseudo(pseudo) == {k \in 1..Len(Adherents) : Adherents[k].pseudo = pseudo}

\* The row Adherent.objects.create(...) of transaction() inserts for a CSVUser
new_adherent(user) ==
    [surname |-> user.last_name, pseudo |-> user.username, email |-> user.email,
     school |-> SCHOOL_ID, comment |-> COMMENT, state |-> STATE_ACTIVE,
     email_state |-> EMAIL_STATE_VERIFIED, name |-> user.first_name,
     room |-> user.room]

\* Vente(facture=invoice, name=article.name, ..., number=quantity)
\* a Vente that drops the quantity
new_purchase_mut_number_one(facture, article, quantity) ==
    [facture |-> facture, name |-> article.name, prix |-> article.prix,
     duration_connection |-> article.duration_connection,
     duration_days_connection |-> article.duration_days_connection,
     duration_membership |-> article.duration_membership,
     duration_days_membership |-> article.duration_days_membership,
     number |-> 1]

new_purchase(facture, article, quantity) ==
    [facture |-> facture, name |-> article.name, prix |-> article.prix,
     duration_connection |-> article.duration_connection,
     duration_days_connection |-> article.duration_days_connection,
     duration_membership |-> article.duration_membership,
     duration_days_membership |-> article.duration_days_membership,
     number |-> quantity]

\* [user.username for user in users]
usernames_of(us) == [k \in 1..Len(us) |-> us[k].username]

\* check_constraints that never raises
check_constraints_mut_never(usernames) == FALSE

\* check_constraints(usernames) raises
check_constraints(usernames) == filter_pseudo_in(usernames) # {}

----------------------------------------------------------------------------
(* @transaction.atomic *)

params == <<file, ARTICLES, schools, paiements, articles, before>>
locals == <<users, i, invoice, user_object, purchases>>

\* Leaving the block on an exception with its writes kept (no atomic block)
atomic_exit_exception_mut_no_rollback == db' = db /\ persisted' = db

\* Leaving the atomic block on an exception: the block's writes are rolled back
atomic_exit_exception == db' = persisted /\ persisted' = persisted

\* Leaving the atomic block normally: the block's writes are committed
atomic_exit_normal == db' = db /\ persisted' = db

\* An exception is raised in transaction(): nothing catches it
Raise(e) ==
    /\ pc' = "aborted"
    /\ error' = e
    /\ atomic_exit_exception
    /\ UNCHANGED <<params, locals, posts, log>>

Logged(op, row) == log' = Append(log, [op |-> op, row |-> row])

----------------------------------------------------------------------------
(* transaction() *)

\* school = School.objects.get(pk=SCHOOL_ID)
GetSchool ==
    /\ pc = "school"
    /\ IF SCHOOL_ID \in schools
       THEN /\ pc' = "payment"
            /\ UNCHANGED <<params, locals, db, persisted, posts, error, log>>
       ELSE Raise("School.DoesNotExist")

\* payment = Paiement.objects.get(pk=PAYMENT_METHOD)
GetPayment ==
    /\ pc = "payment"
    /\ IF PAYMENT_METHOD \in paiements
       THEN /\ pc' = "open"
            /\ UNCHANGED <<params, locals, db, persisted, posts, error, log>>
       ELSE Raise("Paiement.DoesNotExist")

\* read_file: open(PATH, "rt")
OpenFile ==
    /\ pc = "open"
    /\ IF file.exists
       THEN /\ pc' = "read"
            /\ i' = 1
            /\ UNCHANGED <<params, users, invoice, user_object, purchases,
                           db, persisted, posts, error, log>>
       ELSE Raise("FileNotFoundError")

\* read_file: one row of the loop
ReadRow ==
    /\ pc = "read"
    /\ i <= Len(file.rows)
    /\ LET row == file.rows[i]
       IN  IF Len(row) < 4
           THEN Raise("IndexError")
           ELSE IF get_room(row[4]).raises # "none"
           THEN Raise(get_room(row[4]).raises)
           ELSE /\ users' = Append(users, CSVUser(row[1], row[2], row[3], row[4]))
                /\ i' = i + 1
                /\ Logged("parse", i)
                /\ UNCHANGED <<params, invoice, user_object, purchases, pc,
                               db, persisted, posts, error>>

\* read_file returns
ReadDone ==
    /\ pc = "read"
    /\ i > Len(file.rows)
    /\ pc' = "check"
    /\ i' = 0
    /\ UNCHANGED <<params, users, invoice, user_object, purchases,
                   db, persisted, posts, error, log>>

\* check_constraints([user.username for user in users])
CheckConstraints ==
    /\ pc = "check"
    /\ IF check_constraints(usernames_of(users))
       THEN Raise("Exception")
       ELSE /\ pc' = "move"
            /\ i' = 1
            /\ Logged("check", 0)
            /\ UNCHANGED <<params, users, invoice, user_object, purchases,
                           db, persisted, posts, error>>

\* force_move that leaves the occupant in the room
ForceMove_mut_no_eviction ==
    /\ pc = "move"
    /\ i <= Len(users)
    /\ pc' = "create"
    /\ UNCHANGED <<params, locals, db, persisted, posts, error, log>>

\* force_move(user.room): queryset[0] of an unordered queryset is any of its rows
ForceMove ==
    /\ pc = "move"
    /\ i <= Len(users)
    /\ LET already_in_room == filter_room(users[i].room)
       IN  IF already_in_room = {}
           THEN /\ pc' = "create"
                /\ UNCHANGED <<params, locals, db, persisted, posts, error, log>>
           ELSE \E previous_user \in already_in_room, saved \in BOOLEAN :
                    IF saved
                    THEN /\ db' = [db EXCEPT !.adherents[previous_user].room = NoRoom]
                         /\ pc' = "create"
                         /\ Logged("evict", i)
                         /\ UNCHANGED <<params, locals, persisted, posts, error>>
                    ELSE Raise("Adherent.save")

\* Adherent.objects.create(...): pseudo is a unique column
CreateAdherent ==
    /\ pc = "create"
    /\ IF filter_pseudo(new_adherent(users[i]).pseudo) # {}
       THEN Raise("IntegrityError")
       ELSE \E saved \in BOOLEAN :
                IF saved
                THEN /\ db' = [db EXCEPT !.adherents = Append(@, new_adherent(users[i]))]
                     /\ pc' = "move"
                     /\ i' = i + 1
                     /\ Logged("create", i)
                     /\ UNCHANGED <<params, users, invoice, user_object, purchases,
                                    persisted, posts, error>>
                ELSE Raise("Adherent.create")

\* the account loop ends
CreateDone ==
    /\ pc = "move"
    /\ i > Len(users)
    /\ pc' = "reset"
    /\ i' = 1
    /\ UNCHANGED <<params, users, invoice, user_object, purchases,
                   db, persisted, posts, error, log>>

\* c.post("/users/reset_password/", {"pseudo": user.username, "email": user.email})
ResetPassword ==
    /\ pc = "reset"
    /\ i <= Len(users)
    /\ \E answered \in BOOLEAN :
           IF answered
           THEN /\ posts' = Append(posts, [pseudo |-> users[i].username,
                                           email |-> users[i].email])
                /\ i' = i + 1
                /\ Logged("post", i)
                /\ UNCHANGED <<params, users, invoice, user_object, purchases, pc,
                               db, persisted, error>>
           ELSE Raise("Client.post")

\* the reset loop ends, without the test of ARTICLES
ResetDone_mut_no_test ==
    /\ pc = "reset"
    /\ i > Len(users)
    /\ pc' = "inv_user"
    /\ i' = 1
    /\ UNCHANGED <<params, users, invoice, user_object, purchases,
                   db, persisted, posts, error, log>>

\* the reset loop ends: if ARTICLES
ResetDone ==
    /\ pc = "reset"
    /\ i > Len(users)
    /\ pc' = IF ARTICLES # <<>> THEN "inv_user" ELSE "commit"
    /\ i' = 1
    /\ UNCHANGED <<params, users, invoice, user_object, purchases,
                   db, persisted, posts, error, log>>

\* user_object = User.objects.get(pseudo=user.username)
GetUser ==
    /\ pc = "inv_user"
    /\ i <= Len(users)
    /\ LET found == filter_pseudo(users[i].username)
       IN  IF found = {}
           THEN Raise("User.DoesNotExist")
           ELSE IF Cardinality(found) > 1
           THEN Raise("User.MultipleObjectsReturned")
           ELSE /\ user_object' = CHOOSE k \in found : TRUE
                /\ pc' = "inv_create"
                /\ UNCHANGED <<params, users, i, invoice, purchases,
                               db, persisted, posts, error, log>>

\* invoice = Facture.objects.create(user=user_object, paiement=payment);
\* valid and control take the defaults of the Facture model
CreateFacture ==
    /\ pc = "inv_create"
    /\ \E saved \in BOOLEAN, valid \in BOOLEAN, control \in BOOLEAN :
           IF saved
           THEN /\ db' = [db EXCEPT !.factures =
                            Append(@, [user |-> user_object, paiement |-> PAYMENT_METHOD,
                                       valid |-> valid, control |-> control])]
                /\ invoice' = Len(Factures) + 1
                /\ purchases' = <<>>
                /\ pc' = "inv_article"
                /\ Logged("invoice", i)
                /\ UNCHANGED <<params, users, i, user_object, persisted, posts, error>>
           ELSE Raise("Facture.create")

\* for art in ARTICLES: article = Article.objects.get(pk=art[0]); purchases.append(...)
\* (total_price is summed here and never used)
GetArticle ==
    /\ pc = "inv_article"
    /\ Len(purchases) < Len(ARTICLES)
    /\ LET art == ARTICLES[Len(purchases) + 1]
       IN  IF art[1] \in articles
           THEN /\ purchases' = Append(purchases, new_purchase(invoice, Article(art[1]), art[2]))
                /\ UNCHANGED <<params, users, i, invoice, user_object, pc,
                               db, persisted, posts, error, log>>
           ELSE Raise("Article.DoesNotExist")

\* invoice.save()
SaveInvoice ==
    /\ pc = "inv_article"
    /\ Len(purchases) = Len(ARTICLES)
    /\ \E saved \in BOOLEAN :
           IF saved
           THEN /\ pc' = "inv_ventes"
                /\ UNCHANGED <<params, locals, db, persisted, posts, error, log>>
           ELSE Raise("Facture.save")

\* The Vente rows of the invoice that are saved
saved_purchases == {k \in 1..Len(Ventes) : Ventes[k].facture = invoice}

\* for p in purchases: p.facture = invoice; p.save()
SaveVente ==
    /\ pc = "inv_ventes"
    /\ Cardinality(saved_purchases) < Len(purchases)
    /\ LET p == purchases[Cardinality(saved_purchases) + 1]
       IN  \E saved \in BOOLEAN :
               IF saved
               THEN /\ db' = [db EXCEPT !.ventes = Append(@, [p EXCEPT !.facture = invoice])]
                    /\ UNCHANGED <<params, locals, pc, persisted, posts, error, log>>
               ELSE Raise("Vente.save")

\* invoice.valid = True; invoice.control = True; invoice.save()
validated(facture) == [facture EXCEPT !.valid = TRUE, !.control = TRUE]

ValidateInvoice ==
    /\ pc = "inv_ventes"
    /\ Cardinality(saved_purchases) = Len(purchases)
    /\ \E saved \in BOOLEAN :
           IF saved
           THEN /\ db' = [db EXCEPT !.factures[invoice] = validated(@)]
                /\ pc' = "inv_user"
                /\ i' = i + 1
                /\ invoice' = 0
                /\ user_object' = 0
                /\ purchases' = <<>>
                /\ UNCHANGED <<params, users, persisted, posts, error, log>>
           ELSE Raise("Facture.save")

\* the invoice loop ends
InvoicesDone ==
    /\ pc = "inv_user"
    /\ i > Len(users)
    /\ pc' = "commit"
    /\ UNCHANGED <<params, locals, db, persisted, posts, error, log>>

\* transaction() returns: the atomic block commits
Commit ==
    /\ pc = "commit"
    /\ pc' = "done"
    /\ atomic_exit_normal
    /\ Logged("commit", 0)
    /\ UNCHANGED <<params, locals, posts, error>>

Next ==
    \/ GetSchool \/ GetPayment \/ OpenFile \/ ReadRow \/ ReadDone
    \/ CheckConstraints \/ ForceMove \/ CreateAdherent \/ CreateDone
    \/ ResetPassword \/ ResetDone
    \/ GetUser \/ CreateFacture \/ GetArticle \/ SaveInvoice \/ SaveVente
    \/ ValidateInvoice \/ InvoicesDone \/ Commit

----------------------------------------------------------------------------
(* The states the run starts from *)

\* All strings of at most n characters of the alphabet
RECURSIVE Strings(_, _)
Strings(alphabet, n) ==
    IF n = 0 THEN {<<>>}
    ELSE LET shorter == Strings(alphabet, n - 1)
         IN  shorter \cup {Append(s, c) : s \in shorter, c \in alphabet}

\* All sequences of at most n elements of the set
RECURSIVE SeqsUpTo(_, _)
SeqsUpTo(S, n) ==
    IF n = 0 THEN {<<>>}
    ELSE LET shorter == SeqsUpTo(S, n - 1)
         IN  shorter \cup {Append(s, x) : s \in shorter, x \in S}

LastName == <<"L">>
FirstName == <<"F">>

\* An account that exists before the run
Existing(pseudo, room) ==
    [surname |-> <<"O">>, pseudo |-> pseudo, email |-> pseudo \o <<"@", "o">>,
     school |-> SCHOOL_ID, comment |-> "", state |-> STATE_ACTIVE,
     email_state |-> EMAIL_STATE_VERIFIED, name |-> <<"P">>, room |-> room]

\* The Adherent tables the run may find
ExistingAdherents ==
    { <<>>,
      <<Existing(<<"d">>, 1)>>,
      <<Existing(<<"a", "-", "b">>, NoRoom)>>,
      <<Existing(<<"d">>, 1), Existing(<<"e">>, 1)>>,
      <<Existing(<<"d">>, 1), Existing(<<"e">>, 2)>> }

\* The tables before the run: an existing account has an invoice with one sale
Tables(adherents) ==
    [adherents |-> adherents,
     factures |-> IF adherents = <<>> THEN <<>>
                  ELSE <<[user |-> 1, paiement |-> PAYMENT_METHOD,
                          valid |-> TRUE, control |-> FALSE]>>,
     ventes |-> IF adherents = <<>> THEN <<>>
                ELSE <<new_purchase(1, Article(2), 1)>>]

\* ARTICLES and the pks of the Article table
Catalogues ==
    { [ARTICLES |-> <<>>, articles |-> {1, 2}],
      [ARTICLES |-> << <<1, 4>> >>, articles |-> {1, 2}],
      [ARTICLES |-> << <<1, 4>>, <<1, 4>> >>, articles |-> {1, 2}],
      [ARTICLES |-> << <<1, 4>>, <<2, 1>> >>, articles |-> {1, 2}],
      [ARTICLES |-> << <<1, 4>>, <<2, 1>> >>, articles |-> {1}],
      [ARTICLES |-> << <<1, 4>> >>, articles |-> {}] }

CsvEmails ==
    { <<"a", ".", "b", "@", "x">>, <<"a", "-", "b", "@", "y">>, <<"c", "@", "x">> }

CsvRooms == { <<"A", " ", "1">>, <<"A", " ", "1", " ", "1">> }

\* Rows that cannot be parsed: a blank line, three columns, a room string
\* without a space, an unknown building, an unknown room
BadRows ==
    { <<>>,
      <<LastName, FirstName, <<"c", "@", "x">> >>,
      <<LastName, FirstName, <<"c", "@", "x">>, <<"A", "1">> >>,
      <<LastName, FirstName, <<"c", "@", "x">>, <<"B", " ", "1">> >>,
      <<LastName, FirstName, <<"c", "@", "x">>, <<"A", " ", "2">> >> }

CsvRows == {<<LastName, FirstName, e, r>> : e \in CsvEmails, r \in CsvRooms} \cup BadRows

InitRun ==
    /\ persisted = before
    /\ db = before
    /\ posts = <<>>
    /\ users = <<>>
    /\ pc = "school"
    /\ i = 0
    /\ invoice = 0
    /\ user_object = 0
    /\ purchases = <<>>
    /\ error = "none"
    /\ log = <<>>

Init ==
    /\ file \in {[exists |-> TRUE, rows |-> rows] : rows \in SeqsUpTo(CsvRows, MaxRows)}
                \cup {[exists |-> FALSE, rows |-> <<>>]}
    /\ \E c \in Catalogues : ARTICLES = c.ARTICLES /\ articles = c.articles
    /\ schools \in SUBSET {SCHOOL_ID}
    /\ paiements \in SUBSET {PAYMENT_METHOD}
    /\ before \in {Tables(a) : a \in ExistingAdherents}
    /\ InitRun

Spec == Init /\ [][Next]_vars

\* One row, its email and its room string any string within the bounds; the
\* parameters are those of the script
EmailChars == {"a", ".", "@"}
RoomChars == {"A", " ", "1"}

InitRow ==
    /\ file \in {[exists |-> TRUE, rows |-> << <<LastName, FirstName, e, r>> >>] :
                    e \in Strings(EmailChars, MaxEmailLen),
                    r \in Strings(RoomChars, MaxRoomLen)}
    /\ ARTICLES = << <<1, 4>> >>
    /\ articles = {1, 2}
    /\ schools = {SCHOOL_ID}
    /\ paiements = {PAYMENT_METHOD}
    /\ before = Tables(<<Existing(<<"a">>, NoRoom), Existing(<<"d">>, 1)>>)
    /\ InitRun

SpecRow == InitRow /\ [][Next]_vars

----------------------------------------------------------------------------
(* What the properties speak of *)

HasOp(op) == \E k \in 1..Len(log) : log[k].op = op

\* The operations that write to the database or call the reset endpoint
Effects == {"evict", "create", "post", "invoice"}
NoEffectYet == (\A k \in 1..Len(log) : log[k].op \notin Effects) /\ db = before /\ posts = <<>>

\* A database write has been performed in this run
Wrote == HasOp("evict") \/ HasOp("create")

NRows == Len(file.rows)
NBefore == Len(before.adherents)

\* The pk of the account created for row k
AccountOf(k) == NBefore + k

\* The statements up to the end of read_file
Reading == {"school", "payment", "open", "read"}

ParseErrors == {"IndexError", "ValueError", "Building.DoesNotExist", "Room.DoesNotExist"}

HasSpace(s) == \E k \in 1..Len(s) : s[k] = " "

\* The room of that name in the building of that name, as a set of ids
RoomNamed(building_name, name) ==
    {r.id : r \in {x \in Room : x.name = name
                     /\ \E b \in Building : b.id = x.building /\ b.name = building_name}}

\* s is cut at position k into the text before and the text after
CutAt(s, k, left, right) ==
    /\ k \in 1..Len(s)
    /\ Len(left) = k - 1
    /\ Len(right) = Len(s) - k
    /\ \A m \in 1..Len(left) : left[m] = s[m]
    /\ \A m \in 1..Len(right) : right[m] = s[k + m]

\* The exception a row raises when it is parsed ("none": none), by the rules of
\* the room string: four columns, a space, a known building, a known room in it
RowError(row) ==
    IF Len(row) < 4 THEN "IndexError"
    ELSE IF ~HasSpace(row[4]) THEN "ValueError"
    ELSE LET k == CHOOSE m \in 1..Len(row[4]) :
                      row[4][m] = " " /\ \A q \in 1..(m - 1) : row[4][q] # " "
             left == [m \in 1..(k - 1) |-> row[4][m]]
             right == [m \in 1..(Len(row[4]) - k) |-> row[4][k + m]]
         IN  IF \A b \in Building : b.name # left THEN "Building.DoesNotExist"
             ELSE IF RoomNamed(left, right) = {} THEN "Room.DoesNotExist"
             ELSE "none"

BadRowAt(k) == k \in 1..NRows /\ RowError(file.rows[k]) # "none"
FirstBadRow == CHOOSE k \in 1..NRows : BadRowAt(k) /\ \A m \in 1..(k - 1) : ~BadRowAt(m)

LookupsPass == SCHOOL_ID \in schools /\ PAYMENT_METHOD \in paiements

----------------------------------------------------------------------------
(* C1: the import is all-or-nothing. Whatever the CSV and whichever step     *)
(* raised, once the run has raised the durable tables (accounts, their rooms, *)
(* invoices, sale lines) are the tables before the run; the durable tables    *)
(* differ from those only when the run reached its end without an error, and  *)
(* then they are what the run wrote.                                          *)
AllOrNothing ==
    /\ pc = "aborted" => persisted = before /\ db = before /\ error # "none"
    /\ pc # "done" => persisted = before
    /\ pc = "done" => persisted = db /\ error = "none"

\* A run that evicted, created accounts and an invoice, and then failed on a sale
AllOrNothingWitness ==
    /\ pc = "aborted"
    /\ error = "Vente.save"
    /\ HasOp("evict")
    /\ HasOp("invoice")
    /\ Len(users) = 2

(* C2: usernames are unique before any write. Once the first write of the run *)
(* (an eviction or an account creation) is performed, the usernames of all    *)
(* rows are pairwise distinct and none is the pseudo of an existing account.  *)
UsernamesUniqueBeforeWrites ==
    Wrote =>
        /\ \A k, m \in 1..Len(users) : k # m => users[k].username # users[m].username
        /\ \A k \in 1..Len(users), a \in 1..NBefore :
               users[k].username # before.adherents[a].pseudo

\* Some username of the CSV is the pseudo of an account that existed before the run
Conflict ==
    \E k \in 1..NRows, a \in 1..NBefore :
        /\ Len(file.rows[k]) >= 4
        /\ before.adherents[a].pseudo = get_username(file.rows[k][3])

(* C3: check_constraints raises exactly when a username of the CSV is the     *)
(* pseudo of an existing Adherent; it runs after all rows are parsed and      *)
(* before any write, so when it raises nothing was evicted, created, posted   *)
(* or invoiced at all.                                                        *)
CheckRaisesIffTaken ==
    /\ error = "Exception" => Conflict /\ NoEffectYet /\ Len(users) = NRows /\ log # <<>>
                              /\ \A k \in 1..Len(log) : log[k] = [op |-> "parse", row |-> k]
    /\ HasOp("check") => ~Conflict /\ Len(users) = NRows
    /\ pc \in Reading \cup {"check"} => NoEffectYet /\ ~HasOp("check")

\* The check raised on a CSV of two rows
CheckRaisesWitness == error = "Exception" /\ Len(users) = 2 /\ pc = "aborted"

(* C4: the password reset is part of the all-or-nothing unit. When the run    *)
(* has aborted, no reset request it issued remains.                           *)
ResetsOnlyIfCommitted == pc = "aborted" => posts = <<>>


IsPrefix(a, b) == Len(a) <= Len(b) /\ \A k \in 1..Len(a) : a[k] = b[k]

Each(op, n) == [k \in 1..n |-> [op |-> op, row |-> k]]

\* The operations of a complete run over n rows, in the order of the phases
PhasesOf(n, arts) ==
    Each("parse", n) \o <<[op |-> "check", row |-> 0]>> \o Each("create", n)
    \o Each("post", n) \o (IF arts # <<>> THEN Each("invoice", n) ELSE <<>>)
    \o <<[op |-> "commit", row |-> 0]>>

NotEvict(e) == e.op # "evict"

(* C5: the run goes through separated phases in this order: every row is      *)
(* parsed, the uniqueness check, an account for every row, a reset call for   *)
(* every row, (only with ARTICLES non-empty) an invoice for every row, the    *)
(* commit; within a phase the rows are handled in CSV order, each once. An    *)
(* eviction happens only right before the creation of the same row's account. *)
PhasesInOrder ==
    /\ IsPrefix(SelectSeq(log, NotEvict), PhasesOf(NRows, ARTICLES))
    /\ pc = "done" => SelectSeq(log, NotEvict) = PhasesOf(NRows, ARTICLES)
    /\ \A k \in 1..Len(log) :
           log[k].op = "evict" =>
               k = Len(log) \/ log[k + 1] = [op |-> "create", row |-> log[k].row]
    /\ Len(posts) = Cardinality({k \in 1..Len(log) : log[k].op = "post"})

\* A committed run over two rows with invoices
PhasesInOrderWitness == pc = "done" /\ NRows = 2 /\ ARTICLES # <<>> /\ HasOp("evict")

\* u is the part of email before its first "@" (all of it without one), every
\* "." of it written "-"
IsDashedLocalPart(email, u) ==
    /\ Len(u) <= Len(email)
    /\ \A k \in 1..Len(u) :
           /\ email[k] # "@"
           /\ u[k] = (IF email[k] = "." THEN "-" ELSE email[k])
    /\ Len(u) < Len(email) => email[Len(u) + 1] = "@"

(* C6: the username of a row is the part of its email before the first "@"    *)
(* (the whole email without one) with every "." replaced by "-"; it holds no  *)
(* "." and no "@"; the account is created with this value as pseudo, and the  *)
(* reset call and the invoice lookup use the same value.                      *)
UsernameIsDashedLocalPart ==
    \A k \in 1..Len(users) :
        LET email == file.rows[k][3]
            u == users[k].username
        IN  /\ users[k].email = email
            /\ IsDashedLocalPart(email, u)
            /\ \A m \in 1..Len(u) : u[m] \notin {".", "@"}
            /\ AccountOf(k) <= Len(db.adherents) =>
                   db.adherents[AccountOf(k)].pseudo = u
            /\ k <= Len(posts) => posts[k].pseudo = u /\ posts[k].email = email
            /\ user_object # 0 /\ i = k /\ pc # "aborted" =>
                   user_object = AccountOf(k) /\ db.adherents[user_object].pseudo = u
            /\ pc = "done" => persisted.adherents[AccountOf(k)].pseudo = u

\* A committed import of the email ".@": dots to replace, a domain to cut
UsernameWitness ==
    /\ pc = "done"
    /\ NRows = 1
    /\ file.rows[1][3] = <<".", "@">>
    /\ persisted.adherents[AccountOf(1)].pseudo = <<"-">>

\* The text of the room string before / after its first space
BeforeFirstSpace(s, left) ==
    \E k \in 1..Len(s), right \in {SubSeq(s, m, Len(s)) : m \in 1..(Len(s) + 1)} :
        CutAt(s, k, left, right) /\ s[k] = " " /\ ~HasSpace(left)
AfterFirstSpace(s, right) ==
    \E k \in 1..Len(s), left \in {SubSeq(s, 1, m) : m \in 0..Len(s)} :
        CutAt(s, k, left, right) /\ s[k] = " " /\ ~HasSpace(left)

\* Row k has been read: it was parsed or it ended the run
RowRead(k) ==
    /\ pc \notin {"school", "payment", "open"}
    /\ error \notin {"School.DoesNotExist", "Paiement.DoesNotExist", "FileNotFoundError"}
    /\ ~(pc = "read" /\ i <= k)
    /\ Len(users) >= k - 1

NFactures == Len(before.factures)
NVentes == Len(before.ventes)

\* The sale line that ARTICLES entry `art` gives on the invoice of pk `facture`
IsSaleOf(vente, facture, art) ==
    /\ vente.facture = facture
    /\ vente.name = Article(art[1]).name
    /\ vente.prix = Article(art[1]).prix
    /\ vente.duration_connection = Article(art[1]).duration_connection
    /\ vente.duration_days_connection = Article(art[1]).duration_days_connection
    /\ vente.duration_membership = Article(art[1]).duration_membership
    /\ vente.duration_days_membership = Article(art[1]).duration_days_membership
    /\ vente.number = art[2]

(* C8: invoices follow ARTICLES. A committed run with ARTICLES empty creates  *)
(* no invoice and no sale line; with ARTICLES non-empty it creates for every  *)
(* row exactly one invoice, owned by the row's account, paid with             *)
(* PAYMENT_METHOD, valid and controlled, with exactly one sale line per entry *)
(* of ARTICLES, in order, duplicates included, its name, price and four       *)
(* durations those of the article and its number the entry's quantity.        *)
InvoicesFollowArticles ==
    pc = "done" =>
        /\ SubSeq(persisted.factures, 1, NFactures) = before.factures
        /\ SubSeq(persisted.ventes, 1, NVentes) = before.ventes
        /\ ARTICLES = <<>> =>
               persisted.factures = before.factures /\ persisted.ventes = before.ventes
        /\ ARTICLES # <<>> =>
               /\ Len(persisted.factures) = NFactures + NRows
               /\ Len(persisted.ventes) = NVentes + NRows * Len(ARTICLES)
               /\ \A k \in 1..NRows :
                      LET f == persisted.factures[NFactures + k]
                      IN  /\ f.user = AccountOf(k)
                          /\ persisted.adherents[f.user].email = file.rows[k][3]
                          /\ f.paiement = PAYMENT_METHOD
                          /\ f.valid
                          /\ f.control
                          /\ \A j \in 1..Len(ARTICLES) :
                                 IsSaleOf(persisted.ventes[NVentes + (k - 1) * Len(ARTICLES) + j],
                                          NFactures + k, ARTICLES[j])

\* A committed run over two rows with the same article twice in ARTICLES
InvoicesWitness ==
    pc = "done" /\ NRows = 2 /\ ARTICLES = << <<1, 4>>, <<1, 4>> >> /\ NFactures = 1

\* The statements after the account loop of a run that has not raised
AfterAccounts ==
    {"reset", "inv_user", "inv_create", "inv_article", "inv_ventes", "commit", "done"}

OccupantsBefore(r) == {a \in 1..NBefore : before.adherents[a].room = r}
OccupantsNow(r) == {a \in 1..Len(db.adherents) : db.adherents[a].room = r}
RowsNaming(r) == {k \in 1..Len(users) : users[k].room = r}
LastNaming(r) == CHOOSE k \in RowsNaming(r) : \A m \in RowsNaming(r) : m <= k

(* C9: rooms after the account loop. A room the CSV names, with at most one   *)
(* occupant before the run, has exactly one occupant: the account of the last *)
(* row naming it; its previous occupant, an old account or the account of an  *)
(* earlier row, has no room. Accounts in rooms the CSV does not name are      *)
(* unchanged. Each force_move empties the room of one occupant only, so a     *)
(* room that started with several keeps as many occupants as it had.          *)
RoomsAfterAccounts ==
    pc \in AfterAccounts =>
        /\ Len(db.adherents) = NBefore + NRows
        /\ \A a \in 1..NBefore :
               \/ db.adherents[a] = before.adherents[a]
               \/ /\ db.adherents[a] = [before.adherents[a] EXCEPT !.room = NoRoom]
                  /\ RowsNaming(before.adherents[a].room) # {}
        /\ \A r \in {x.id : x \in Room} :
               IF RowsNaming(r) = {}
               THEN OccupantsNow(r) = OccupantsBefore(r)
               ELSE /\ AccountOf(LastNaming(r)) \in OccupantsNow(r)
                    /\ Cardinality(OccupantsBefore(r)) <= 1 =>
                           /\ OccupantsNow(r) = {AccountOf(LastNaming(r))}
                           /\ \A a \in OccupantsBefore(r) : db.adherents[a].room = NoRoom
                           /\ \A k \in RowsNaming(r) \ {LastNaming(r)} :
                                  db.adherents[AccountOf(k)].room = NoRoom
                    /\ Cardinality(OccupantsBefore(r)) >= 2 =>
                           Cardinality(OccupantsNow(r)) = Cardinality(OccupantsBefore(r))

\* Two rows name room 1, which had one occupant, and another room is occupied
RoomsWitness ==
    /\ pc = "reset"
    /\ Cardinality(RowsNaming(1)) = 2
    /\ Cardinality(OccupantsBefore(1)) = 1
    /\ OccupantsBefore(2) # {}

\* A room with two occupants before the run is named by the CSV
RoomsSeveralWitness ==
    pc = "reset" /\ Cardinality(OccupantsBefore(1)) = 2 /\ RowsNaming(1) # {}

EmptyCsvWitness == pc = "done" /\ NRows = 0 /\ ARTICLES # <<>>

====
